---- MODULE Spec2Model ----
(***************************************************************************)
(* ra_hir_expand (crates/ra_hir_expand/src/lib.rs): file identities of     *)
(* real and macro-generated files, the walk from a macro file back to the  *)
(* real file it originates from, the range mapping of an expansion, stable *)
(* node references and the provenance wrapper.                             *)
(***************************************************************************)
EXTENDS Integers, Sequences, FiniteSets, TLC

(***************************************************************************)
(* Bounds of the exploration.                                              *)
(***************************************************************************)
\* macro calls interned while original_file / as_file are explored
MaxCalls == 3
\* macro calls interned while expansion results are explored
MaxExpandable == 2
\* entries of arg_map and def_map together
MaxEntries == 3
\* text offsets 0 .. MaxOffset of the generic ranges
MaxOffset == 2
\* Source::map applications in a row
MaxMaps == 2

\* ra_db::FileId values of the workspace
FileIds == {1, 2}
\* ra_db::CrateId values
CrateIds == {0}

VARIABLES
    interner,    \* db: the macro-call location interner, handle i |-> interner[i]
    expanded,    \* db: the macro files whose expansion succeeded
    call,        \* the last completed call: operation, receiver, arguments, outcome
    pc,          \* original_file, step by step: "idle" | "resolving" | "returned"
    self_file,   \* original_file: the receiver of the outermost call
    cur,         \* original_file: the receiver of the innermost call
    ret,         \* original_file: the FileId returned
    arg_map,     \* ExpansionInfo.arg_map
    def_map,     \* ExpansionInfo.def_map
    source,      \* a Source<T> value
    origin,      \* the Source<T> value the maps started from
    applied      \* the transforms mapped over origin so far

vars == <<interner, expanded, call, pc, self_file, cur, ret,
          arg_map, def_map, source, origin, applied>>

(***************************************************************************)
(* Option<T>                                                               *)
(***************************************************************************)
None == [is_some |-> FALSE]
Some(v) == [is_some |-> TRUE, value |-> v]

(***************************************************************************)
(* Identities.                                                             *)
(***************************************************************************)
\* enum MacroFileKind { Items, Expr }
MacroFileKind == {"Items", "Expr"}

\* impl From<FileId> for HirFileId
From_FileId(id) == [repr |-> "FileId", file_id |-> id]

\* impl From<MacroFile> for HirFileId
From_MacroFile(id) == [repr |-> "MacroFile", macro_file |-> id]

\* struct MacroFile { macro_call_id, macro_file_kind }
MacroFile(id, kind) == [macro_call_id |-> id, macro_file_kind |-> kind]

\* a plausible slip: the shape tag is dropped from the identity
as_file_ignoring_kind(self, kind) ==
    From_MacroFile(MacroFile(self, "Items"))

\* MacroCallId::as_file
as_file(self, kind) ==
    LET macro_file == MacroFile(self, kind)
    IN  From_MacroFile(macro_file)

\* AstId::new
AstId(file_id, file_ast_id) == [file_id |-> file_id, file_ast_id |-> file_ast_id]

\* struct MacroDefId { krate, ast_id }
MacroDefId(krate, ast_id) == [krate |-> krate, ast_id |-> ast_id]

\* struct MacroCallLoc { def, ast_id }
MacroCallLoc(def, ast_id) == [def |-> def, ast_id |-> ast_id]

\* the handles the interner has issued
MacroCallIds == 1 .. Len(interner)

\* the macro files of the issued handles
MacroFiles == {MacroFile(id, kind) : id \in MacroCallIds, kind \in MacroFileKind}

\* every HirFileId that can be built in the current database state
HirFileIds ==
    {From_FileId(f) : f \in FileIds} \cup {From_MacroFile(m) : m \in MacroFiles}

(***************************************************************************)
(* The database.                                                           *)
(***************************************************************************)
\* db.lookup_intern_macro
lookup_intern_macro(id) == interner[id]

\* db.intern_macro: an equal location keeps its handle, a new one gets the next
intern_macro(loc) ==
    IF \E id \in MacroCallIds : interner[id] = loc
    THEN interner' = interner
    ELSE interner' = Append(interner, loc)

\* db.macro_expansion_info: the info computed for this macro file, if it expanded
ExpansionInfoOf(macro_file) == [of |-> macro_file]
macro_expansion_info(macro_file) ==
    IF macro_file \in expanded THEN Some(ExpansionInfoOf(macro_file)) ELSE None

\* db.parse_or_expand: a real file always parses; a macro file has a tree
\* iff its expansion succeeded
SyntaxOf(file_id) == [root_of |-> file_id]
parse_or_expand(file_id) ==
    IF file_id.repr = "FileId"
    THEN Some(SyntaxOf(file_id))
    ELSE IF file_id.macro_file \in expanded THEN Some(SyntaxOf(file_id)) ELSE None

(***************************************************************************)
(* HirFileId::original_file                                                *)
(***************************************************************************)
\* a plausible slip: the definition site is followed instead of the call site
original_file_callee_def(macro_file) ==
    LET loc == lookup_intern_macro(macro_file.macro_call_id)
    IN  loc.def.ast_id.file_id

\* a plausible slip: the call recurses on its own receiver
original_file_callee_self(macro_file) == From_MacroFile(macro_file)

\* the receiver of the recursive call, for a macro file
original_file_callee(macro_file) ==
    LET loc == lookup_intern_macro(macro_file.macro_call_id)
    IN  loc.ast_id.file_id

RECURSIVE original_file(_)
original_file(self) ==
    IF self.repr = "FileId"
    THEN self.file_id
    ELSE original_file(original_file_callee(self.macro_file))

(***************************************************************************)
(* HirFileId::parent_expansion                                             *)
(***************************************************************************)
\* Option::map(|ex| ((arg_file, def_file), ex))
parent_expansion_map(ex, arg_file, def_file) ==
    IF ex.is_some THEN Some(<<<<arg_file, def_file>>, ex.value>>) ELSE None

\* a plausible slip: the two sites are bound the wrong way round
parent_expansion_swapped(self) ==
    IF self.repr = "FileId"
    THEN None
    ELSE LET macro_file == self.macro_file
             loc == lookup_intern_macro(macro_file.macro_call_id)
             def_file == loc.ast_id.file_id
             arg_file == loc.def.ast_id.file_id
         IN  parent_expansion_map(macro_expansion_info(macro_file), arg_file, def_file)

parent_expansion(self) ==
    IF self.repr = "FileId"
    THEN None
    ELSE LET macro_file == self.macro_file
             loc == lookup_intern_macro(macro_file.macro_call_id)
             def_file == loc.def.ast_id.file_id
             arg_file == loc.ast_id.file_id
         IN  parent_expansion_map(macro_expansion_info(macro_file), arg_file, def_file)

(***************************************************************************)
(* ExpansionInfo::find_range                                               *)
(***************************************************************************)
\* TextRange::from_to
TextRange(start, end) == [start |-> start, end |-> end]

\* a plausible slip: receiver and argument are taken the other way round
is_subrange_swapped(self, other) ==
    self.start <= other.start /\ other.end <= self.end

\* self.is_subrange(&other): self lies within other
is_subrange(self, other) ==
    other.start <= self.start /\ self.end <= other.end

\* one (src, dest) pair of a map
Entry(src, dest) == [src |-> src, dest |-> dest]

\* one `for (src, dest) in map` loop, from entry i on: the first hit returns
RECURSIVE find_range_loop(_, _, _, _)
find_range_loop(map, i, from, file_id) ==
    IF i > Len(map)
    THEN None
    ELSE IF is_subrange(map[i].src, from)
         THEN Some(<<file_id, map[i].dest>>)
         ELSE find_range_loop(map, i + 1, from, file_id)

\* a plausible slip: the definition side is scanned first
find_range_def_first(self, from, ids) ==
    LET hit == find_range_loop(self.def_map, 1, from, ids[2])
    IN  IF hit.is_some THEN hit ELSE find_range_loop(self.arg_map, 1, from, ids[1])

\* ids = (arg_file_id, def_file_id)
find_range(self, from, ids) ==
    LET hit == find_range_loop(self.arg_map, 1, from, ids[1])
    IN  IF hit.is_some THEN hit ELSE find_range_loop(self.def_map, 1, from, ids[2])

(***************************************************************************)
(* AstId::to_node, Source::file_syntax, Source::map                        *)
(***************************************************************************)
\* the outcome of a call: it returns a value or it panics
Returned(v) == [panicked |-> FALSE, value |-> v]
Panicked == [panicked |-> TRUE]

\* Option::unwrap / Option::expect
unwrap(opt) == IF opt.is_some THEN Returned(opt.value) ELSE Panicked

\* db.ast_id_map(file_id): the indices of the file's node table. In the
\* explored workspace real file f has f indexed nodes, a macro file has one.
ast_id_map(file_id) ==
    IF file_id.repr = "FileId" THEN 0 .. (file_id.file_id - 1) ELSE {0}

\* AstIdMap::get(..).to_node(&root): resolving an index the table does not
\* hold is a programming error
ast_id_map_get(file_id, file_ast_id, root) ==
    IF file_ast_id \in ast_id_map(file_id)
    THEN Returned([node |-> file_ast_id, root |-> root])
    ELSE Panicked

\* a plausible slip: an absent tree is passed on instead of unwrapped
file_syntax_lenient(self) == Returned(parse_or_expand(self.file_id))

\* a plausible slip: the absent tree is passed on instead of unwrapped
to_node_lenient(self) ==
    LET root == parse_or_expand(self.file_id)
    IN  IF root.is_some
        THEN ast_id_map_get(self.file_id, self.file_ast_id, root.value)
        ELSE Returned(None)

to_node(self) ==
    LET root == unwrap(parse_or_expand(self.file_id))
    IN  IF root.panicked
        THEN Panicked
        ELSE ast_id_map_get(self.file_id, self.file_ast_id, root.value)

file_syntax(self) == unwrap(parse_or_expand(self.file_id))

\* a plausible slip: the file identity is rebuilt instead of carried over
map_resetting_file(self, f) ==
    [file_id |-> From_FileId(1), ast |-> f[self.ast]]

\* Source::map; f is a function on payloads
map(self, f) == [file_id |-> self.file_id, ast |-> f[self.ast]]

(***************************************************************************)
(* Inputs.                                                                 *)
(***************************************************************************)
\* the files a macro definition can sit in: a real file, or an expansion to items
DefFileIds ==
    {From_FileId(f) : f \in FileIds}
        \cup {as_file(id, "Items") : id \in MacroCallIds}

\* the locations a caller can build in the current database state
MacroCallLocs ==
    {MacroCallLoc(MacroDefId(k, AstId(d, 0)), AstId(c, 0)) :
        k \in CrateIds, d \in DefFileIds, c \in HirFileIds}

\* the locations of macros defined in real files
NestedCallLocs ==
    {MacroCallLoc(MacroDefId(k, AstId(From_FileId(d), 0)), AstId(c, 0)) :
        k \in CrateIds, d \in FileIds, c \in HirFileIds}

\* FileAstId values: the indices the largest node table holds
FileAstIds == 0 .. 1

\* the node references a caller can build
AstIds == {AstId(f, i) : f \in HirFileIds, i \in FileAstIds}

\* the maps of the worked example
ExampleArgMap == <<Entry(TextRange(0, 10), TextRange(100, 110))>>
ExampleDefMap == <<Entry(TextRange(20, 30), TextRange(200, 210))>>

\* the src ranges of tokens: non-empty, within 0 .. MaxOffset
TokenRanges ==
    {r \in [start : 0 .. MaxOffset, end : 0 .. MaxOffset] : r.start < r.end}

\* the ranges asked for: every range within 0 .. MaxOffset, and the example's
ExampleQueries ==
    {TextRange(2, 5), TextRange(22, 25), TextRange(50, 55),
     TextRange(0, 10), TextRange(20, 30), TextRange(0, 30)}
QueryRanges ==
    {r \in [start : 0 .. MaxOffset, end : 0 .. MaxOffset] : r.start <= r.end}
        \cup ExampleQueries

\* the dest range recorded with the i-th entry of a map
ArgDest(i) == TextRange(100 + 10 * (i - 1), 110 + 10 * (i - 1))
DefDest(i) == TextRange(200 + 10 * (i - 1), 210 + 10 * (i - 1))

\* (arg_file_id, def_file_id) of the mapped expansion
ArgFileId == From_FileId(1)
DefFileId == From_FileId(2)

\* the ExpansionInfo value held in arg_map and def_map
info == [arg_map |-> arg_map, def_map |-> def_map]

\* payloads of a Source and the transforms mapped over them
Payloads == 0 .. 3
Transforms ==
    {[x \in Payloads |-> (x + 1) % 4], [x \in Payloads |-> (2 * x) % 4],
     [x \in Payloads |-> 0], [x \in Payloads |-> 3 - x]}

(***************************************************************************)
(* Actions.                                                                *)
(***************************************************************************)
NoCall == [op |-> "none"]

\* the caller takes the outcome of the last call
Return ==
    /\ call # NoCall
    /\ call' = NoCall
    /\ UNCHANGED <<interner, expanded, pc, self_file, cur, ret,
                   arg_map, def_map, source, origin, applied>>

InternMacro ==
    /\ call = NoCall
    /\ Len(interner) < MaxCalls
    /\ \E loc \in MacroCallLocs : intern_macro(loc)
    /\ UNCHANGED <<expanded, call, pc, self_file, cur, ret,
                   arg_map, def_map, source, origin, applied>>

CallAsFile ==
    /\ call = NoCall
    /\ \E id \in MacroCallIds, kind \in MacroFileKind :
          call' = [op |-> "as_file", self |-> id, kind |-> kind,
                   outcome |-> Returned(as_file(id, kind))]
    /\ UNCHANGED <<interner, expanded, pc, self_file, cur, ret,
                   arg_map, def_map, source, origin, applied>>

CallOriginalFile ==
    /\ call = NoCall
    /\ \E f \in HirFileIds :
          call' = [op |-> "original_file", self |-> f,
                   outcome |-> Returned(original_file(f))]
    /\ UNCHANGED <<interner, expanded, pc, self_file, cur, ret,
                   arg_map, def_map, source, origin, applied>>

\* ---- original_file, one recursive call per step
InternNested ==
    /\ pc = "idle"
    /\ Len(interner) < MaxCalls
    /\ \E loc \in NestedCallLocs : intern_macro(loc)
    /\ UNCHANGED <<expanded, call, pc, self_file, cur, ret,
                   arg_map, def_map, source, origin, applied>>

EnterOriginalFile ==
    /\ pc = "idle"
    /\ \E f \in HirFileIds :
          /\ self_file' = f
          /\ cur' = f
    /\ pc' = "resolving"
    /\ UNCHANGED <<interner, expanded, call, ret,
                   arg_map, def_map, source, origin, applied>>

StepOriginalFile ==
    /\ pc = "resolving"
    /\ IF cur.repr = "FileId"
       THEN /\ ret' = cur.file_id
            /\ pc' = "returned"
            /\ cur' = cur
       ELSE /\ cur' = original_file_callee(cur.macro_file)
            /\ UNCHANGED <<ret, pc>>
    /\ UNCHANGED <<interner, expanded, call, self_file,
                   arg_map, def_map, source, origin, applied>>

LeaveOriginalFile ==
    /\ pc = "returned"
    /\ pc' = "idle"
    /\ UNCHANGED <<interner, expanded, call, self_file, cur, ret,
                   arg_map, def_map, source, origin, applied>>

\* ---- expansion results
InternExpandable ==
    /\ call = NoCall
    /\ Len(interner) < MaxExpandable
    /\ \E loc \in MacroCallLocs : intern_macro(loc)
    /\ UNCHANGED <<expanded, call, pc, self_file, cur, ret,
                   arg_map, def_map, source, origin, applied>>

\* the database expands a macro file successfully
Expand ==
    /\ call = NoCall
    /\ \E m \in MacroFiles \ expanded : expanded' = expanded \cup {m}
    /\ UNCHANGED <<interner, call, pc, self_file, cur, ret,
                   arg_map, def_map, source, origin, applied>>

CallParentExpansion ==
    /\ call = NoCall
    /\ \E f \in HirFileIds :
          call' = [op |-> "parent_expansion", self |-> f,
                   outcome |-> Returned(parent_expansion(f))]
    /\ UNCHANGED <<interner, expanded, pc, self_file, cur, ret,
                   arg_map, def_map, source, origin, applied>>

CallToNode ==
    /\ call = NoCall
    /\ \E id \in AstIds :
          call' = [op |-> "to_node", self |-> id, outcome |-> to_node(id)]
    /\ UNCHANGED <<interner, expanded, pc, self_file, cur, ret,
                   arg_map, def_map, source, origin, applied>>

CallFileSyntax ==
    /\ call = NoCall
    /\ \E f \in HirFileIds :
          LET src == [file_id |-> f, ast |-> 0]
          IN  call' = [op |-> "file_syntax", self |-> src, outcome |-> file_syntax(src)]
    /\ UNCHANGED <<interner, expanded, pc, self_file, cur, ret,
                   arg_map, def_map, source, origin, applied>>

CallFindRange ==
    /\ call = NoCall
    /\ \E from \in QueryRanges :
          call' = [op |-> "find_range", self |-> info, from |-> from,
                   outcome |->
                       Returned(find_range(info, from, <<ArgFileId, DefFileId>>))]
    /\ UNCHANGED <<interner, expanded, pc, self_file, cur, ret,
                   arg_map, def_map, source, origin, applied>>

\* ---- the maps of an ExpansionInfo
PushArg ==
    /\ call = NoCall
    /\ Len(arg_map) + Len(def_map) < MaxEntries
    /\ \E src \in TokenRanges :
          arg_map' = Append(arg_map, Entry(src, ArgDest(Len(arg_map) + 1)))
    /\ UNCHANGED <<interner, expanded, call, pc, self_file, cur, ret,
                   def_map, source, origin, applied>>

PushDef ==
    /\ call = NoCall
    /\ Len(arg_map) + Len(def_map) < MaxEntries
    /\ \E src \in TokenRanges :
          def_map' = Append(def_map, Entry(src, DefDest(Len(def_map) + 1)))
    /\ UNCHANGED <<interner, expanded, call, pc, self_file, cur, ret,
                   arg_map, source, origin, applied>>

\* ---- Source::map
SourceMap ==
    /\ Len(applied) < MaxMaps
    /\ \E f \in Transforms :
          /\ source' = map(source, f)
          /\ applied' = Append(applied, f)
    /\ UNCHANGED <<interner, expanded, call, pc, self_file, cur, ret,
                   arg_map, def_map, origin>>

(***************************************************************************)
(* Specifications.                                                         *)
(***************************************************************************)
InitDb ==
    /\ interner = <<>>
    /\ expanded = {}
    /\ call = NoCall

InitWalk ==
    /\ pc = "idle"
    /\ self_file = From_FileId(1)
    /\ cur = From_FileId(1)
    /\ ret = 1

InitSource ==
    /\ source = [file_id |-> From_FileId(1), ast |-> 0]
    /\ origin = source
    /\ applied = <<>>

Init ==
    /\ InitDb
    /\ InitWalk
    /\ arg_map = ExampleArgMap
    /\ def_map = ExampleDefMap
    /\ InitSource

\* identities and original_file
Next ==
    \/ InternMacro
    \/ CallAsFile
    \/ CallOriginalFile
    \/ Return

Spec == Init /\ [][Next]_vars

\* original_file, call by call
NextWalk ==
    \/ InternNested
    \/ EnterOriginalFile
    \/ StepOriginalFile
    \/ LeaveOriginalFile

SpecWalk == Init /\ [][NextWalk]_vars /\ WF_vars(StepOriginalFile)

\* expansion results and the operations that read them
NextExpansion ==
    \/ InternExpandable
    \/ Expand
    \/ CallParentExpansion
    \/ CallToNode
    \/ CallFileSyntax
    \/ CallFindRange
    \/ Return

SpecExpansion == Init /\ [][NextExpansion]_vars

\* find_range over the maps of an ExpansionInfo
InitRange ==
    /\ InitDb
    /\ InitWalk
    /\ \/ arg_map = <<>> /\ def_map = <<>>
       \/ arg_map = ExampleArgMap /\ def_map = ExampleDefMap
    /\ InitSource

NextRange ==
    \/ PushArg
    \/ PushDef
    \/ CallFindRange
    \/ Return

SpecRange == InitRange /\ [][NextRange]_vars

\* Source::map
InitMap ==
    /\ interner = <<MacroCallLoc(MacroDefId(0, AstId(From_FileId(1), 0)),
                                 AstId(From_FileId(2), 0))>>
    /\ expanded = {}
    /\ call = NoCall
    /\ InitWalk
    /\ arg_map = <<>>
    /\ def_map = <<>>
    /\ source \in [file_id : HirFileIds, ast : Payloads]
    /\ origin = source
    /\ applied = <<>>

NextMap == SourceMap

SpecMap == InitMap /\ [][NextMap]_vars

(***************************************************************************)
(* Properties.                                                             *)
(***************************************************************************)
\* the file of the call site / of the definition site of a macro file's call
CallSite(f) ==
    IF f.repr = "FileId" THEN f ELSE interner[f.macro_file.macro_call_id].ast_id.file_id
DefSite(f) ==
    IF f.repr = "FileId" THEN f ELSE interner[f.macro_file.macro_call_id].def.ast_id.file_id

\* n call sites down from f
RECURSIVE Descend(_, _)
Descend(f, n) == IF n = 0 THEN f ELSE Descend(CallSite(f), n - 1)

\* the bottom of f's call-site chain: a location names only handles issued
\* before its own, so no chain is longer than the interner
ChainBottom(f) == Descend(f, Len(interner))

\* C1: original_file returns the real root of the call-site chain: a real
\* file is its own original file; a macro file's original file is that of the
\* file of its call site, the real file at the bottom of the call-site chain
\* at any depth, and not that of the definition site when the two differ.
C1_OriginalFileIsCallSiteRoot ==
    /\ \A f \in FileIds : original_file(From_FileId(f)) = f
    /\ call.op = "original_file" =>
          LET v == call.self
              r == call.outcome.value
          IN  /\ ~call.outcome.panicked
              /\ v.repr = "FileId" => r = v.file_id
              /\ v.repr = "MacroFile" =>
                    /\ r = original_file(CallSite(v))
                    /\ ChainBottom(v).repr = "FileId"
                    /\ r = ChainBottom(v).file_id
                    /\ ChainBottom(DefSite(v)) # ChainBottom(v)
                          => r # ChainBottom(DefSite(v)).file_id

\* original_file has returned for a macro file three expansions deep whose
\* macro is defined under another real file than the one it is called under
C1_Witness ==
    /\ call.op = "original_file"
    /\ call.self.repr = "MacroFile"
    /\ Descend(call.self, 2).repr = "MacroFile"
    /\ Descend(call.self, 3).repr = "FileId"
    /\ ChainBottom(DefSite(call.self)) # ChainBottom(call.self)
    /\ call.outcome.value = ChainBottom(call.self).file_id

\* C8: as_file is injective in the handle and in the shape tag, and no
\* identity it builds equals a real file's identity.
C8_AsFileInjective ==
    /\ \A h1 \in MacroCallIds, h2 \in MacroCallIds :
          \A k1 \in MacroFileKind, k2 \in MacroFileKind :
             (as_file(h1, k1) = as_file(h2, k2)) <=> (h1 = h2 /\ k1 = k2)
    /\ \A h \in MacroCallIds, k \in MacroFileKind, f \in FileIds :
          as_file(h, k) # From_FileId(f)
    /\ call.op = "as_file" =>
          /\ call.outcome.value.repr = "MacroFile"
          /\ call.outcome.value.macro_file.macro_call_id = call.self
          /\ call.outcome.value.macro_file.macro_file_kind = call.kind

\* as_file has built the Expr identity of the second of two macro calls
C8_Witness ==
    /\ call.op = "as_file"
    /\ call.kind = "Expr"
    /\ call.self = 2
    /\ call.outcome.value # as_file(2, "Items")
    /\ call.outcome.value # as_file(1, "Expr")

\* C5: every call of original_file returns, at a real file identity.
C5_OriginalFileTerminates ==
    (pc = "resolving") ~> (pc = "returned" /\ cur.repr = "FileId")

\* original_file has returned from a macro file three expansions deep
C5_Witness ==
    /\ pc = "returned"
    /\ Descend(self_file, 2).repr = "MacroFile"
    /\ cur.repr = "FileId"
    /\ ret = cur.file_id

\* C2: parent_expansion unwraps one level: nothing for a real file; for a
\* macro file with expansion info, the files of the call site and of the
\* definition site of its own location, in this order, with the info of this
\* macro file; nothing when the database has no info for it.
C2_ParentExpansionOneLevel ==
    call.op = "parent_expansion" =>
       LET f == call.self
           r == call.outcome.value
       IN  /\ ~call.outcome.panicked
           /\ f.repr = "FileId" => r = None
           /\ f.repr = "MacroFile" =>
                 LET loc == interner[f.macro_file.macro_call_id]
                 IN  IF f.macro_file \in expanded
                     THEN r = Some(<<<<loc.ast_id.file_id, loc.def.ast_id.file_id>>,
                                     ExpansionInfoOf(f.macro_file)>>)
                     ELSE r = None

\* parent_expansion has returned, for a macro call made inside an expansion,
\* the expansion as arg_file (not its root) and another file as def_file
C2_Witness ==
    /\ call.op = "parent_expansion"
    /\ call.outcome.value.is_some
    /\ call.outcome.value.value[1][1].repr = "MacroFile"
    /\ call.outcome.value.value[1][1] # call.outcome.value.value[1][2]
    /\ call.outcome.value.value[2] = ExpansionInfoOf(call.self.macro_file)

\* where repeated parent_expansion, following arg_file, stops
RECURSIVE ArgChainEnd(_)
ArgChainEnd(f) ==
    LET p == parent_expansion(f)
    IN  IF p.is_some THEN ArgChainEnd(p.value[1][1]) ELSE f

\* C10: original_file is the same for a macro file and the arg_file its
\* parent_expansion returns; following arg_file until parent_expansion
\* returns nothing on a real file ends at original_file; both shapes of one
\* macro call have the same original file.
C10_OriginalFileAlongArgChain ==
    /\ (call.op = "parent_expansion" /\ call.outcome.value.is_some) =>
          original_file(call.self) = original_file(call.outcome.value.value[1][1])
    /\ call.op = "parent_expansion" =>
          (ArgChainEnd(call.self).repr = "FileId"
              => ArgChainEnd(call.self).file_id = original_file(call.self))
    /\ \A h \in MacroCallIds :
          original_file(as_file(h, "Items")) = original_file(as_file(h, "Expr"))

\* parent_expansion has returned for a macro file two expansions deep, both
\* levels expanded, whose macro is defined under another real file
C10_Witness ==
    /\ call.op = "parent_expansion"
    /\ call.outcome.value.is_some
    /\ parent_expansion(call.outcome.value.value[1][1]).is_some
    /\ ArgChainEnd(call.self).repr = "FileId"
    /\ original_file(call.outcome.value.value[1][2]) # original_file(call.self)

\* the file identity a recorded call carries
CallFile ==
    IF call.op = "parent_expansion" THEN call.self ELSE call.self.file_id

\* a call on a macro file whose expansion failed
OnFailedExpansion ==
    /\ call.op \in {"parent_expansion", "to_node", "file_syntax"}
    /\ CallFile.repr = "MacroFile"
    /\ ~parse_or_expand(CallFile).is_some
    /\ ~macro_expansion_info(CallFile.macro_file).is_some

\* C7 as stated: on a macro file that failed to expand, parent_expansion and
\* to_node both come back with nothing found instead of failing fatally.
C7_AsStated ==
    (OnFailedExpansion /\ call.op \in {"parent_expansion", "to_node"}) =>
       /\ ~call.outcome.panicked
       /\ call.outcome.value = None

\* C7: on a macro file that failed to expand, parent_expansion returns
\* nothing found, and to_node panics.
C7_FailedExpansion ==
    /\ (OnFailedExpansion /\ call.op = "parent_expansion") =>
          call.outcome = Returned(None)
    /\ (OnFailedExpansion /\ call.op = "to_node") => call.outcome.panicked

\* to_node has been called on a node of a macro file that failed to expand,
\* with an index its table would hold
C7_Witness ==
    /\ OnFailedExpansion
    /\ call.op = "to_node"
    /\ call.self.file_ast_id \in ast_id_map(call.self.file_id)
    /\ call.outcome = Panicked

\* an entry of either map of the recorded find_range call matches the query
SomeEntryMatches ==
    \/ \E i \in 1 .. Len(call.self.arg_map) : is_subrange(call.self.arg_map[i].src, call.from)
    \/ \E i \in 1 .. Len(call.self.def_map) : is_subrange(call.self.def_map[i].src, call.from)

\* what C6 says of the operations that return an absent result
NeverPanics ==
    /\ call.op \in {"as_file", "original_file"} => ~call.outcome.panicked
    /\ call.op = "parent_expansion" =>
          /\ ~call.outcome.panicked
          /\ call.outcome.value = None <=>
                (call.self.repr = "FileId"
                    \/ ~macro_expansion_info(call.self.macro_file).is_some)
    /\ call.op = "find_range" =>
          /\ ~call.outcome.panicked
          /\ call.outcome.value = None <=> ~SomeEntryMatches

\* C6 as stated: to_node and file_syntax panic exactly when parse_or_expand
\* is absent for their file; no other operation panics, parent_expansion
\* and find_range return nothing instead.
C6_AsStated ==
    /\ call.op \in {"to_node", "file_syntax"} =>
          (call.outcome.panicked <=> ~parse_or_expand(CallFile).is_some)
    /\ NeverPanics

\* C6: file_syntax panics exactly when parse_or_expand is absent for its
\* file; to_node panics exactly when parse_or_expand is absent for its file
\* or the file's node table does not hold its index; no other operation
\* panics, parent_expansion and find_range return nothing instead.
C6_PropagationPolicy ==
    /\ call.op = "file_syntax" =>
          (call.outcome.panicked <=> ~parse_or_expand(CallFile).is_some)
    /\ call.op = "to_node" =>
          (call.outcome.panicked <=>
              (~parse_or_expand(CallFile).is_some
                  \/ call.self.file_ast_id \notin ast_id_map(CallFile)))
    /\ NeverPanics

\* file_syntax has panicked on a macro file that failed to expand
C6_Witness ==
    /\ call.op = "file_syntax"
    /\ CallFile.repr = "MacroFile"
    /\ ~parse_or_expand(CallFile).is_some
    /\ call.outcome = Panicked

\* the least element of a non-empty set of indices
First(S) == CHOOSE i \in S : \A j \in S : i <= j

\* the indices of the entries of a map whose src matches the query
Hits(entries, from) == {i \in 1 .. Len(entries) : is_subrange(entries[i].src, from)}

\* C3: find_range returns arg_file with the dest of the first matching
\* arg_map entry; with no arg_map match, def_file with the dest of the first
\* matching def_map entry; with no match, nothing.
C3_FindRangeFirstMatch ==
    call.op = "find_range" =>
       LET a == call.self.arg_map
           d == call.self.def_map
           r == call.outcome.value
       IN  IF Hits(a, call.from) # {}
           THEN r = Some(<<ArgFileId, a[First(Hits(a, call.from))].dest>>)
           ELSE IF Hits(d, call.from) # {}
                THEN r = Some(<<DefFileId, d[First(Hits(d, call.from))].dest>>)
                ELSE r = None

\* find_range has answered a query that two arg_map entries match, the
\* second a tighter range than the first, and a def_map entry matches too
C3_Witness ==
    /\ call.op = "find_range"
    /\ Hits(call.self.arg_map, call.from) = {1, 2}
    /\ Hits(call.self.def_map, call.from) # {}
    /\ is_subrange(call.self.arg_map[2].src, call.self.arg_map[1].src)
    /\ call.self.arg_map[2].src # call.self.arg_map[1].src
    /\ call.outcome.value = Some(<<ArgFileId, call.self.arg_map[1].dest>>)

\* the query lies within the src range / the src range lies within the query
QueryWithinSrc(e, from) == e.src.start <= from.start /\ from.end <= e.src.end
SrcWithinQuery(e, from) == from.start <= e.src.start /\ e.src.end <= from.end

\* the recorded find_range call ran on the maps of the worked example
OnExample ==
    /\ call.op = "find_range"
    /\ call.self.arg_map = ExampleArgMap
    /\ call.self.def_map = ExampleDefMap

\* C4 as stated: an entry matches iff the query lies within its src range;
\* on the example [2,5) maps to the arg side, [22,25) to (def_file,
\* [200,210)), [50,55) to nothing.
C4_AsStated ==
    /\ call.op = "find_range" =>
          (call.outcome.value.is_some <=>
              \/ \E i \in 1 .. Len(call.self.arg_map) :
                    QueryWithinSrc(call.self.arg_map[i], call.from)
              \/ \E i \in 1 .. Len(call.self.def_map) :
                    QueryWithinSrc(call.self.def_map[i], call.from))
    /\ (OnExample /\ call.from = TextRange(2, 5)) =>
          (call.outcome.value.is_some /\ call.outcome.value.value[1] = ArgFileId)
    /\ (OnExample /\ call.from = TextRange(22, 25)) =>
          call.outcome.value = Some(<<DefFileId, TextRange(200, 210)>>)
    /\ (OnExample /\ call.from = TextRange(50, 55)) => call.outcome.value = None

\* C4: an entry matches iff its src range lies within the query; on the
\* example [0,10) maps to (arg_file, [100,110)), [20,30) to (def_file,
\* [200,210)), and [2,5), [22,25) and [50,55) to nothing.
C4_SrcWithinQuery ==
    /\ call.op = "find_range" =>
          (call.outcome.value.is_some <=>
              \/ \E i \in 1 .. Len(call.self.arg_map) :
                    SrcWithinQuery(call.self.arg_map[i], call.from)
              \/ \E i \in 1 .. Len(call.self.def_map) :
                    SrcWithinQuery(call.self.def_map[i], call.from))
    /\ (OnExample /\ call.from = TextRange(0, 10)) =>
          call.outcome.value = Some(<<ArgFileId, TextRange(100, 110)>>)
    /\ (OnExample /\ call.from = TextRange(20, 30)) =>
          call.outcome.value = Some(<<DefFileId, TextRange(200, 210)>>)
    /\ (OnExample /\ call.from \in {TextRange(2, 5), TextRange(22, 25), TextRange(50, 55)})
          => call.outcome.value = None

\* find_range has answered nothing on the example for [22,25), which lies
\* within the def_map src range [20,30)
C4_Witness ==
    /\ OnExample
    /\ call.from = TextRange(22, 25)
    /\ QueryWithinSrc(call.self.def_map[1], call.from)
    /\ call.outcome.value = None

\* g after f, as a transform
Compose(f, g) == [x \in Payloads |-> g[f[x]]]

\* the transforms of a sequence composed, the first innermost
RECURSIVE ComposeAll(_)
ComposeAll(fs) ==
    IF Len(fs) = 1 THEN fs[1] ELSE Compose(fs[1], ComposeAll(Tail(fs)))

\* C9: map leaves file_id as it was and applies the transform to the
\* payload; maps in a row equal one map with the composed transform.
C9_MapPreservesFile ==
    /\ source.file_id = origin.file_id
    /\ applied = <<>> => source = origin
    /\ applied # <<>> =>
          /\ source.ast = ComposeAll(applied)[origin.ast]
          /\ source = map(origin, ComposeAll(applied))
    /\ Len(applied) = 2 =>
          map(map(origin, applied[1]), applied[2])
              = map(origin, Compose(applied[1], applied[2]))

\* two transforms have been mapped over a Source of a macro file, and the
\* payload has changed
C9_Witness ==
    /\ Len(applied) = 2
    /\ origin.file_id.repr = "MacroFile"
    /\ source.ast # origin.ast
    /\ source.file_id = origin.file_id

====
